---- MODULE Spec2Model ----
(***************************************************************************)
(* Lemke's complementary pivoting algorithm for the linear                *)
(* complementarity problem, as implemented in src/src/lemke:              *)
(*   tableau.rs        integer tableau with fraction-free pivoting        *)
(*   tableau_vars.rs   basis / cobasis bookkeeping and result extraction  *)
(*   lex_min_ratio.rs  lexicographic minimum ratio test                   *)
(*   lcp.rs            scaling, input validation and the pivot loop       *)
(* and of the copy of the tableau in src/src/lib.rs (its pivot).          *)
(* Spec is a solve (lemke_with_pivot_max); SpecPivot is one call of       *)
(* Tableau::pivot on a tableau drawn from a bounded set; SpecMinRatio is   *)
(* one call of take_min_ratio_rows on a drawn tableau and candidate list.  *)
(* Vectors of the code are 0-based; the arrays below are functions on     *)
(* 0..len-1.  The inputs m, q, d and the candidate list are sequences,    *)
(* element k of the code being element k+1 of the sequence.  A panic of   *)
(* the code ends the run: pc = "done" and outcome names the panic.        *)
(***************************************************************************)
EXTENDS Integers, Sequences, FiniteSets, TLC

\* ------------------------------------------------------------------ bounds
\* largest denominator of an input rational
MaxDen == 2
\* largest pivot budget (pivot_max) tried; 0 is "unlimited"
MaxBudget == 3
\* cap on pivot_count for runs the budget does not stop
MaxPivots == 6

\* ------------------------------------------------------- integer helpers
Abs(x) == IF x < 0 THEN -x ELSE x

\* BigInt division truncates toward zero
TruncDiv(a, b) ==
    IF (a >= 0) = (b > 0) THEN Abs(a) \div Abs(b) ELSE -(Abs(a) \div Abs(b))

\* BigInt remainder has the sign of the dividend
TruncRem(a, b) == a - b * TruncDiv(a, b)

RECURSIVE Gcd(_, _)
Gcd(a, b) == IF b = 0 THEN Abs(a) ELSE Gcd(b, Abs(a) % Abs(b))

\* ------------------------------------------------------------- rationals
\* BigRational: numer / denom in lowest terms, denom > 0
Rat(a, b) == [numer |-> a, denom |-> b]

\* Ratio::new reduces to lowest terms and makes the denominator positive
RatioNew(a, b) ==
    LET g == Gcd(a, b)
        s == IF b < 0 THEN -1 ELSE 1
    IN  Rat(s * TruncDiv(a, g), s * TruncDiv(b, g))

RatZero == Rat(0, 1)

\* Ratio::from_integer
FromInteger(k) == Rat(k, 1)

\* ------------------------------------------------------------ tableau.rs
\* Tableau::new(n): n rows, n+2 columns of zeros, determinant -1
TableauNew(nn) ==
    [values      |-> [k \in 0..((nn + 2) * nn - 1) |-> 0],
     ncols       |-> nn + 2,
     nrows       |-> nn,
     determinant |-> -1]

\* Tableau::entry
entry(t, row, col) == t.values[row * t.ncols + col]

\* Tableau::set
set(t, row, col, value) ==
    [t EXCEPT !.values[row * t.ncols + col] = value]

\* Tableau::negate_col
negate_col(t, col) ==
    [t EXCEPT !.values = [k \in DOMAIN t.values |->
        IF k % t.ncols = col THEN -t.values[k] ELSE t.values[k]]]

\* Tableau::negate_row
negate_row(t, row) ==
    [t EXCEPT !.values = [k \in DOMAIN t.values |->
        IF k \div t.ncols = row THEN -t.values[k] ELSE t.values[k]]]

\* ratio_test with the second product taken from column colb twice
ratio_test_one_column(t, rowa, rowb, cola, colb) ==
    LET a == entry(t, rowa, colb) * entry(t, rowb, cola)
        b == entry(t, rowb, colb) * entry(t, rowa, colb)
    IN  IF a < b THEN "Less" ELSE IF a = b THEN "Equal" ELSE "Greater"

\* Tableau::ratio_test: ordering of A[a,colb]*A[b,cola] against
\* A[b,colb]*A[a,cola]
ratio_test(t, rowa, rowb, cola, colb) ==
    LET a == entry(t, rowa, colb) * entry(t, rowb, cola)
        b == entry(t, rowb, colb) * entry(t, rowa, cola)
    IN  IF a < b THEN "Less" ELSE IF a = b THEN "Equal" ELSE "Greater"

\* the loop cell with the sign of the product term exchanged
PivotCell_sign_exchanged(t, row, col, i, jj) ==
    LET p       == entry(t, row, col)
        neg     == p < 0
        tmp1    == entry(t, i, jj) * Abs(p)
        tmp2    == entry(t, row, jj) * entry(t, i, col)
    IN  IF jj # col
        THEN TruncDiv(IF neg THEN tmp1 - tmp2 ELSE tmp1 + tmp2, t.determinant)
        ELSE IF entry(t, i, col) # 0 /\ ~neg THEN -entry(t, i, col)
                                              ELSE entry(t, i, col)

\* one cell of the loop of Tableau::pivot, for a row i # row
PivotCell(t, row, col, i, jj) ==
    LET p       == entry(t, row, col)
        abs     == Abs(p)
        neg     == p < 0
        cur_det == t.determinant
        nonzero == entry(t, i, col) # 0
        tmp1    == entry(t, i, jj) * abs
        tmp2    == entry(t, row, jj) * entry(t, i, col)
    IN  IF jj # col
        THEN TruncDiv(IF nonzero
                      THEN (IF neg THEN tmp1 + tmp2 ELSE tmp1 - tmp2)
                      ELSE tmp1,
                      cur_det)
        ELSE IF nonzero /\ ~neg THEN -entry(t, i, col) ELSE entry(t, i, col)

\* Tableau::pivot without the negation of the pivot row for a negative pivot
TableauPivot_keeps_row_sign(t, row, col) ==
    LET looped == [t EXCEPT !.values = [k \in DOMAIN t.values |->
                     IF k \div t.ncols # row
                     THEN PivotCell(t, row, col, k \div t.ncols, k % t.ncols)
                     ELSE t.values[k]]]
    IN  [set(looped, row, col, t.determinant)
            EXCEPT !.determinant = Abs(entry(t, row, col))]

\* Tableau::pivot on a nonzero entry (the caller tests for zero)
TableauPivot(t, row, col) ==
    LET p       == entry(t, row, col)
        neg     == p < 0
        cur_det == t.determinant
        looped  == [t EXCEPT !.values = [k \in DOMAIN t.values |->
                     IF k \div t.ncols # row
                     THEN PivotCell(t, row, col, k \div t.ncols, k % t.ncols)
                     ELSE t.values[k]]]
        placed  == set(looped, row, col, cur_det)
        signed  == IF neg THEN negate_row(placed, row) ELSE placed
    IN  [signed EXCEPT !.determinant = Abs(p)]

\* Tableau::pivot of src/lib.rs, the crate root's own copy of the tableau:
\* the same loop, but the determinant becomes the pivot element itself
LibTableauPivot(t, row, col) ==
    [TableauPivot(t, row, col) EXCEPT !.determinant = entry(t, row, col)]

\* ------------------------------------------------------- tableau_vars.rs
\* TableauVariable is its index: 0 is z0, 1..n are z1..zn, n+1..2n are w1..wn
is_z(v, nn) == v <= nn

is_z0(v) == v = 0

\* complement that maps w_i one index low, to z_(i-1)
complement_one_low(v, nn) == IF is_z(v, nn) THEN v + nn ELSE v - nn - 1

\* complement that takes z_n for a w: the test is v < n instead of v <= n
complement_strict_bound(v, nn) == IF v < nn THEN v + nn ELSE v - nn

\* TableauVariable::complement for v # z0 (the caller tests for z0)
complement(v, nn) == IF is_z(v, nn) THEN v + nn ELSE v - nn

\* TableauVariables::new
VarsNew(nn) ==
    [n |-> nn,
     vars2rowcol |-> [v \in 0..(2 * nn) |-> IF v <= nn THEN nn + v ELSE v - nn - 1],
     rowcol2vars |-> [p \in 0..(2 * nn) |-> IF p < nn THEN p + 1 + nn ELSE p - nn]]

z(vs, idx) == idx

w(vs, idx) == idx + vs.n

from_row(vs, row) == vs.rowcol2vars[row]

from_col(vs, col) == vs.rowcol2vars[col + vs.n]

to_row(vs, var) == vs.vars2rowcol[var]

to_col(vs, var) == vs.vars2rowcol[var] - vs.n

is_basic(vs, var) == vs.vars2rowcol[var] < vs.n

rhs_col(vs) == vs.n + 1

\* negate_rhs one column short of the RHS
negate_rhs_column_n(vs, t) == negate_col(t, vs.n)

negate_rhs(vs, t) == negate_col(t, rhs_col(vs))

\* swap that updates vars2rowcol and leaves rowcol2vars as it was
swap_forgets_inverse(vs, enterv, leavev) ==
    LET leave_row == to_row(vs, leavev)
        enter_col == to_col(vs, enterv)
    IN  [vs EXCEPT !.vars2rowcol[leavev] = enter_col + vs.n,
                   !.vars2rowcol[enterv] = leave_row]

\* swap that moves the entering variable and leaves the leaving one in place
swap_keeps_leaving(vs, enterv, leavev) ==
    LET leave_row == to_row(vs, leavev)
    IN  [vs EXCEPT !.vars2rowcol[enterv] = leave_row,
                   !.rowcol2vars[leave_row] = enterv]

\* swap that stores the leaving variable at enter_col, without the offset n
swap_without_offset(vs, enterv, leavev) ==
    LET leave_row == to_row(vs, leavev)
        enter_col == to_col(vs, enterv)
    IN  [vs EXCEPT !.vars2rowcol[leavev] = enter_col,
                   !.rowcol2vars[enter_col] = leavev,
                   !.vars2rowcol[enterv] = leave_row,
                   !.rowcol2vars[leave_row] = enterv]

\* TableauVariables::swap: the variable map after the exchange
swap(vs, enterv, leavev) ==
    LET leave_row == to_row(vs, leavev)
        enter_col == to_col(vs, enterv)
    IN  [vs EXCEPT !.vars2rowcol[leavev] = enter_col + vs.n,
                   !.rowcol2vars[enter_col + vs.n] = leavev,
                   !.vars2rowcol[enterv] = leave_row,
                   !.rowcol2vars[leave_row] = enterv]

\* TableauVariables::result
result_of(vs, t, scale_factors, var) ==
    IF is_basic(vs, var)
    THEN LET row == to_row(vs, var)
             scale_factor == IF is_z(var, vs.n) THEN scale_factors[row] ELSE 1
             col == rhs_col(vs)
             numer == scale_factor * entry(t, row, col)
             denom == t.determinant * scale_factors[col]
         IN  RatioNew(numer, denom)
    ELSE RatZero

\* TableauVariables::solution: the values of z1..zn
solution(vs, t, scale_factors) ==
    [i \in 1..vs.n |-> result_of(vs, t, scale_factors, z(vs, i))]

\* ------------------------------------------------------ lex_min_ratio.rs
\* candidate_rows taking the rows with A[i][col] >= 0
RECURSIVE candidate_rows_nonnegative(_, _, _, _)
candidate_rows_nonnegative(t, nn, enter_col, i) ==
    IF i >= nn THEN <<>>
    ELSE (IF entry(t, i, enter_col) >= 0 THEN <<i>> ELSE <<>>)
         \o candidate_rows_nonnegative(t, nn, enter_col, i + 1)

\* lexminratio: leavecand = { i | A[i][col] > 0 }, rows in increasing order
RECURSIVE candidate_rows(_, _, _, _)
candidate_rows(t, nn, enter_col, i) ==
    IF i >= nn THEN <<>>
    ELSE (IF entry(t, i, enter_col) > 0 THEN <<i>> ELSE <<>>)
         \o candidate_rows(t, nn, enter_col, i + 1)

\* the loop with a Greater branch that keeps the count of minima found
RECURSIVE take_min_loop_keeps_count(_, _, _, _, _, _)
take_min_loop_keeps_count(t, enter_col, test_col, rows, num, i) ==
    IF i >= Len(rows) THEN SubSeq(rows, 1, num + 1)
    ELSE LET ord == ratio_test(t, rows[1], rows[i + 1], enter_col, test_col)
         IN  IF ord = "Equal"
             THEN take_min_loop_keeps_count(t, enter_col, test_col,
                      [rows EXCEPT ![num + 2] = rows[i + 1]], num + 1, i + 1)
             ELSE IF ord = "Greater"
             THEN take_min_loop_keeps_count(t, enter_col, test_col,
                      [rows EXCEPT ![1] = rows[i + 1]], num, i + 1)
             ELSE take_min_loop_keeps_count(t, enter_col, test_col, rows, num, i + 1)

\* the loop of take_min_ratio_rows: rows is compacted in place, rows[1..num+1]
\* holds the minima found so far, i is the (0-based) candidate under test
RECURSIVE take_min_loop(_, _, _, _, _, _)
take_min_loop(t, enter_col, test_col, rows, num, i) ==
    IF i >= Len(rows) THEN SubSeq(rows, 1, num + 1)
    ELSE LET ord == ratio_test(t, rows[1], rows[i + 1], enter_col, test_col)
         IN  IF ord = "Equal"
             THEN take_min_loop(t, enter_col, test_col,
                                [rows EXCEPT ![num + 2] = rows[i + 1]], num + 1, i + 1)
             ELSE IF ord = "Greater"
             THEN take_min_loop(t, enter_col, test_col,
                                [rows EXCEPT ![1] = rows[i + 1]], 0, i + 1)
             ELSE take_min_loop(t, enter_col, test_col, rows, num, i + 1)

take_min_ratio_rows(t, enter_col, test_col, rows) ==
    take_min_loop(t, enter_col, test_col, rows, 0, 1)

\* process_rhs: reduce against the RHS column, then seek z0 among the rows left
process_rhs(t, vs, enter_col, rows) ==
    LET kept == take_min_ratio_rows(t, enter_col, rhs_col(vs), rows)
    IN  [rows |-> kept,
         z0_can_leave |-> \E k \in 1..Len(kept) : is_z0(from_row(vs, kept[k]))]

\* Vec::swap_remove(index) for index < len: the last element takes the place
\* of the removed one
swap_remove(rows, index) ==
    SubSeq([rows EXCEPT ![index + 1] = rows[Len(rows)]], 1, Len(rows) - 1)

\* the element handed to swap_remove by process_candidates when W(j) is basic
RemovalIndex(vs, wj) == to_row(vs, wj)

\* the value lexminratio returns as its second component
ReturnedZ0Leave(computed) == FALSE

\* --------------------------------------------------------------- lcp.rs
\* euclid_gcd: the loop runs while b is zero
RECURSIVE euclid_gcd(_, _)
euclid_gcd(a, b) == IF b = 0 THEN euclid_gcd(b, TruncRem(a, b)) ELSE a

\* compute_scale_factor over the rationals vec[1..Len(vec)]
RECURSIVE scale_loop(_, _, _)
scale_loop(vec, lcm, i) ==
    IF i > Len(vec) THEN lcm
    ELSE LET gcd == euclid_gcd(lcm, vec[i].denom)
         IN  scale_loop(vec, TruncDiv(lcm, gcd) * vec[i].denom, i + 1)

compute_scale_factor(vec) == scale_loop(vec, 1, 1)

\* the rationals of tableau column j: d, the columns of M (row-major m), q
Column(mm, qq, dd, j) ==
    LET nn == Len(qq)
    IN  [i \in 1..nn |-> IF j = 0 THEN dd[i]
                         ELSE IF j = nn + 1 THEN qq[i]
                         ELSE mm[(i - 1) * nn + (j - 1) + 1]]

\* A[i][j] = num * scfa[j] / den
ScaledEntry(rat, scale_factor) == TruncDiv(rat.numer * scale_factor, rat.denom)

\* fill column j of the tableau from the rationals vec with scale factor sf
FillColumn(t, j, vec, sf) ==
    [t EXCEPT !.values = [k \in DOMAIN t.values |->
        IF k % t.ncols = j THEN ScaledEntry(vec[(k \div t.ncols) + 1], sf)
        ELSE t.values[k]]]

\* LCP::init_tableau: columns 1..n+1
RECURSIVE init_tableau(_, _, _, _)
init_tableau(t, mm, qq, j) ==
    IF j >= t.ncols THEN t
    ELSE LET vec == Column(mm, qq, qq, j)
         IN  init_tableau(FillColumn(t, j, vec, compute_scale_factor(vec)),
                          mm, qq, j + 1)

\* LCP::new leaves scale_factors[0] zero
InitScaleFactors(mm, qq) ==
    [j \in 0..(Len(qq) + 1) |->
        IF j = 0 THEN 0 ELSE compute_scale_factor(Column(mm, qq, qq, j))]

\* validate_inputs without the test of d[i] = 0 where q[i] < 0
validate_inputs_no_zero_test(qq, dd) ==
    IF \E i \in 1..Len(qq) : dd[i].numer < 0
    THEN "BadCoveringVector"
    ELSE IF \A i \in 1..Len(qq) : qq[i].numer >= 0
    THEN "TrivialSolution"
    ELSE "ok"

\* validate_inputs: which panic, if any
validate_inputs(qq, dd) ==
    IF \E i \in 1..Len(qq) :
          \/ dd[i].numer < 0
          \/ (qq[i].numer < 0 /\ dd[i].numer = 0)
    THEN "BadCoveringVector"
    ELSE IF \A i \in 1..Len(qq) : qq[i].numer >= 0
    THEN "TrivialSolution"
    ELSE "ok"

\* ---------------------------------------------------------------- inputs
IntVec(s) == [k \in 1..Len(s) |-> FromInteger(s[k])]

Numers == {-1, 0, 1, 2}

\* the input rationals, in lowest terms
Rationals ==
    {r \in [numer : Numers, denom : 1..MaxDen] : Gcd(r.numer, r.denom) = 1}

\* the instances of src/src/lemke/lcp.rs (tests lemke2, lemke3) and of the
\* end-to-end scenarios
ScenarioA == [m |-> IntVec(<<2, 1, 1, 3>>), q |-> IntVec(<<-1, -1>>), d |-> IntVec(<<2, 1>>)]

ScenarioB == [m |-> IntVec(<<0, -1, 2, 2, 0, -2, -1, 1, 0>>),
              q |-> IntVec(<<-3, 6, -1>>), d |-> IntVec(<<1, 1, 1>>)]

ScenarioC == [m |-> IntVec(<<1, 0, 0, 1>>), q |-> IntVec(<<1, 1>>), d |-> IntVec(<<1, 1>>)]

ScenarioD == [m |-> IntVec(<<-1>>), q |-> IntVec(<<-1>>), d |-> IntVec(<<1>>)]

Inputs1 == {[m |-> <<a>>, q |-> <<b>>, d |-> <<c>>] : a \in Rationals, b \in Rationals, c \in Rationals}

Matrices2 == {ScenarioA.m, ScenarioC.m, <<Rat(1, 2), Rat(1, 1), Rat(-1, 1), Rat(1, 2)>>}

Signs == {FromInteger(-1), FromInteger(0), FromInteger(1)}

Inputs2 == {[m |-> mm, q |-> <<q1, q2>>, d |-> <<d1, d2>>] :
               mm \in Matrices2, q1 \in Signs, q2 \in Signs, d1 \in Rationals, d2 \in Rationals}

Matrices3 == {ScenarioB.m,
              IntVec(<<1, 0, 0, 0, 1, -1, 0, 0, -1>>),
              IntVec(<<2, 0, -1, 0, 2, 2, 0, 0, 0>>),
              IntVec(<<1, 1, 0, 0, 2, 1, 2, 0, 2>>)}

Inputs3 == {[m |-> mm, q |-> IntVec(qq), d |-> IntVec(dd)] :
               mm \in Matrices3,
               qq \in {<<-3, 6, -1>>, <<1, -1, 0>>, <<-1, 0, 0>>},
               dd \in {<<1, 1, 1>>, <<2, 1, 1>>}}

\* n = 4: rows that tie on the right-hand side and on the columns of w1..w4
ScenarioE == [m |-> IntVec(<<0, 0, -1, 1, 0, 1, 0, 0, 0, 0, 0, 0, -1, 0, 0, 0>>),
              q |-> IntVec(<<-1, -1, 0, 0>>), d |-> IntVec(<<1, 1, 1, 1>>)]

Inputs4 == {ScenarioE}

Inputs == Inputs1 \cup Inputs2 \cup Inputs3 \cup Inputs4

\* ----------------------------------------------------------------- state
VARIABLES
    m, q, d, pivot_max,          \* arguments of lemke_with_pivot_max
    tableau, vars, scale_factors,\* fields of LCP
    enter, leave, z0_can_leave,  \* locals of lemke_with_pivot_max
    pivot_count,
    leave_candidate_rows, j,     \* locals of lexminratio / process_candidates
    rhs_z0_can_leave,            \* process_candidates' z0_can_leave
    caller,                      \* which lexminratio call is running
    pc,                          \* position in lemke_with_pivot_max
    outcome,                     \* "" while running, then the return or panic
    result,                      \* the returned vector
    brk,                         \* the break that left the pivot loop
    pivots,                      \* number of Tableau::pivot calls completed
    bases                        \* the bases (sets of basic variables) so far

vars_all == <<m, q, d, pivot_max, tableau, vars, scale_factors, enter, leave,
              z0_can_leave, pivot_count, leave_candidate_rows, j,
              rhs_z0_can_leave, caller, pc, outcome, result, brk, pivots, bases>>

\* lcp.n
n == Len(q)

Panics == {"BadCoveringVector", "TrivialSolution", "DimensionMismatch",
           "RayTermination",
           "EnterIsBasic", "IndexOutOfBounds", "NotInBasis", "AlreadyInBasis",
           "PivotOnZero", "ComplementOfZ0"}

Init ==
    /\ \E inp \in Inputs : m = inp.m /\ q = inp.q /\ d = inp.d
    /\ pivot_max \in 0..MaxBudget
    /\ tableau = TableauNew(0)
    /\ vars = VarsNew(0)
    /\ scale_factors = <<>>
    /\ enter = 0
    /\ leave = 0
    /\ z0_can_leave = FALSE
    /\ pivot_count = 0
    /\ leave_candidate_rows = <<>>
    /\ j = 0
    /\ rhs_z0_can_leave = FALSE
    /\ caller = ""
    /\ pc = "validate_inputs"
    /\ outcome = ""
    /\ result = <<>>
    /\ brk = ""
    /\ pivots = 0
    /\ bases = <<>>

\* the set of basic variables
Basis(vs) == {v \in 0..(2 * vs.n) : is_basic(vs, v)}

\* a panic: the run ends, nothing is returned
Panic(what) ==
    /\ pc' = "done"
    /\ outcome' = what

\* ---------------------------------------------------------------- actions
\* lemke_with_pivot_max: validate_inputs(&q, &d)
ValidateInputs ==
    /\ pc = "validate_inputs"
    /\ LET v == validate_inputs(q, d)
       IN  IF v = "ok"
           THEN pc' = "new" /\ outcome' = outcome
           ELSE Panic(v)
    /\ UNCHANGED <<m, q, d, pivot_max, tableau, vars, scale_factors, enter,
                   leave, z0_can_leave, pivot_count, leave_candidate_rows, j,
                   rhs_z0_can_leave, caller, result, brk, pivots, bases>>

\* LCP::new(m, q), init_tableau included
NewLCP ==
    /\ pc = "new"
    /\ IF Len(m) % Len(q) # 0 \/ Len(m) \div Len(q) # Len(q)
       THEN \* "M and q are not right dimensions", "M must be a square matrix"
            /\ Panic("DimensionMismatch")
            /\ UNCHANGED <<vars, bases, tableau, scale_factors>>
       ELSE /\ vars' = VarsNew(n)
            /\ bases' = <<Basis(VarsNew(n))>>
            /\ tableau' = init_tableau(TableauNew(n), m, q, 1)
            /\ scale_factors' = InitScaleFactors(m, q)
            /\ pc' = "add_covering_vector"
            /\ outcome' = outcome
    /\ UNCHANGED <<m, q, d, pivot_max, enter, leave, z0_can_leave, pivot_count,
                   leave_candidate_rows, j, rhs_z0_can_leave, caller,
                   result, brk, pivots>>

\* lcp.add_covering_vector(d); enter = z(0) and the first lexminratio call
AddCoveringVector ==
    /\ pc = "add_covering_vector"
    /\ LET scale_factor == compute_scale_factor(d)
       IN  /\ tableau' = FillColumn(tableau, 0, d, scale_factor)
           /\ scale_factors' = [scale_factors EXCEPT ![0] = scale_factor]
    /\ enter' = z(vars, 0)
    /\ caller' = "first"
    /\ pc' = "lexminratio"
    /\ UNCHANGED <<m, q, d, pivot_max, vars, leave, z0_can_leave, pivot_count,
                   leave_candidate_rows, j, rhs_z0_can_leave, outcome, result,
                   brk, pivots, bases>>

\* lexminratio up to the end of process_rhs
LexMinRatioEnter ==
    /\ pc = "lexminratio"
    /\ IF is_basic(vars, enter)
       THEN /\ Panic("EnterIsBasic")
            /\ UNCHANGED <<leave_candidate_rows, j, rhs_z0_can_leave>>
       ELSE LET enter_col == to_col(vars, enter)
                rows == candidate_rows(tableau, vars.n, enter_col, 0)
            IN  IF Len(rows) = 0
                THEN /\ Panic("RayTermination")
                     /\ UNCHANGED <<leave_candidate_rows, j, rhs_z0_can_leave>>
                ELSE LET pr == process_rhs(tableau, vars, enter_col, rows)
                     IN  /\ leave_candidate_rows' = pr.rows
                         /\ rhs_z0_can_leave' = pr.z0_can_leave
                         /\ j' = 1
                         /\ pc' = "process_candidates"
                         /\ outcome' = outcome
    /\ UNCHANGED <<m, q, d, pivot_max, tableau, vars, scale_factors, enter,
                   leave, z0_can_leave, pivot_count, caller, result, brk, pivots, bases>>

\* one iteration of the while loop of process_candidates
ProcessCandidatesStep ==
    /\ pc = "process_candidates"
    /\ Len(leave_candidate_rows) > 1
    /\ IF j > vars.n
       THEN \* vars.w(j) is past 2n: is_basic indexes vars2rowcol out of bounds
            /\ Panic("IndexOutOfBounds")
            /\ UNCHANGED <<leave_candidate_rows, j>>
       ELSE LET wj == w(vars, j)
                enter_col == to_col(vars, enter)
            IN  IF is_basic(vars, wj)
                THEN IF RemovalIndex(vars, wj) >= Len(leave_candidate_rows)
                     THEN /\ Panic("IndexOutOfBounds")
                          /\ UNCHANGED <<leave_candidate_rows, j>>
                     ELSE /\ leave_candidate_rows' =
                                swap_remove(leave_candidate_rows, RemovalIndex(vars, wj))
                          /\ j' = j + 1
                          /\ UNCHANGED <<pc, outcome>>
                ELSE /\ leave_candidate_rows' =
                           IF to_col(vars, wj) # enter_col
                           THEN take_min_ratio_rows(tableau, enter_col,
                                                    to_col(vars, wj), leave_candidate_rows)
                           ELSE leave_candidate_rows
                     /\ j' = j + 1
                     /\ UNCHANGED <<pc, outcome>>
    /\ UNCHANGED <<m, q, d, pivot_max, tableau, vars, scale_factors, enter,
                   leave, z0_can_leave, pivot_count, rhs_z0_can_leave, caller,
                   result, brk, pivots, bases>>

\* lexminratio returns (from_row(leave_candidate_rows[0]), z0leave)
LexMinRatioReturn ==
    /\ pc = "process_candidates"
    /\ Len(leave_candidate_rows) <= 1
    /\ leave' = from_row(vars, leave_candidate_rows[1])
    /\ z0_can_leave' = ReturnedZ0Leave(rhs_z0_can_leave)
    /\ pc' = IF caller = "first" THEN "negate_rhs" ELSE "budget"
    /\ UNCHANGED <<m, q, d, pivot_max, tableau, vars, scale_factors, enter,
                   pivot_count, leave_candidate_rows, j, rhs_z0_can_leave,
                   caller, outcome, result, brk, pivots, bases>>

\* lcp.vars.negate_rhs(&mut lcp.tableau); pivot_count = 1
NegateRhs ==
    /\ pc = "negate_rhs"
    /\ tableau' = negate_rhs(vars, tableau)
    /\ pivot_count' = 1
    /\ pc' = "pivot"
    /\ UNCHANGED <<m, q, d, pivot_max, vars, scale_factors, enter, leave,
                   z0_can_leave, leave_candidate_rows, j, rhs_z0_can_leave,
                   caller, outcome, result, brk, pivots, bases>>

\* lcp.vars.pivot(&mut lcp.tableau, &leave, &enter)
Pivot ==
    /\ pc = "pivot"
    /\ IF ~is_basic(vars, leave)
       THEN Panic("NotInBasis") /\ UNCHANGED <<vars, tableau, pivots, bases>>
       ELSE IF is_basic(vars, enter)
       THEN Panic("AlreadyInBasis") /\ UNCHANGED <<vars, tableau, pivots, bases>>
       ELSE LET row == to_row(vars, leave)
                col == to_col(vars, enter)
            IN  /\ vars' = swap(vars, enter, leave)
                /\ IF entry(tableau, row, col) = 0
                   THEN Panic("PivotOnZero") /\ UNCHANGED <<tableau, pivots, bases>>
                   ELSE /\ tableau' = TableauPivot(tableau, row, col)
                        /\ bases' = Append(bases, Basis(swap(vars, enter, leave)))
                        /\ pivots' = pivots + 1
                        /\ pc' = "select"
                        /\ outcome' = outcome
    /\ UNCHANGED <<m, q, d, pivot_max, scale_factors, enter, leave,
                   z0_can_leave, pivot_count, leave_candidate_rows, j,
                   rhs_z0_can_leave, caller, result, brk>>

\* if z0_can_leave { break }  enter = leave.complement(); next lexminratio
SelectEntering ==
    /\ pc = "select"
    /\ IF z0_can_leave
       THEN pc' = "solution" /\ brk' = "z0_can_leave"
            /\ UNCHANGED <<enter, caller, outcome>>
       ELSE IF leave = 0
       THEN Panic("ComplementOfZ0") /\ UNCHANGED <<enter, caller, brk>>
       ELSE /\ enter' = complement(leave, vars.n)
            /\ caller' = "loop"
            /\ pc' = "lexminratio"
            /\ UNCHANGED <<outcome, brk>>
    /\ UNCHANGED <<m, q, d, pivot_max, tableau, vars, scale_factors, leave,
                   z0_can_leave, pivot_count, leave_candidate_rows, j,
                   rhs_z0_can_leave, result, pivots, bases>>

\* if pivot_count == pivot_max { break }  pivot_count += 1
BudgetCheck ==
    /\ pc = "budget"
    /\ pivot_count = pivot_max \/ pivot_count < MaxPivots
    /\ IF pivot_count = pivot_max
       THEN pc' = "solution" /\ brk' = "pivot_max" /\ UNCHANGED pivot_count
       ELSE pc' = "pivot" /\ pivot_count' = pivot_count + 1 /\ UNCHANGED brk
    /\ UNCHANGED <<m, q, d, pivot_max, tableau, vars, scale_factors, enter,
                   leave, z0_can_leave, leave_candidate_rows, j,
                   rhs_z0_can_leave, caller, outcome, result, pivots, bases>>

\* lcp.vars.solution(&lcp.tableau, &lcp.scale_factors)
Solution ==
    /\ pc = "solution"
    /\ result' = solution(vars, tableau, scale_factors)
    /\ outcome' = "Returned"
    /\ pc' = "done"
    /\ UNCHANGED <<m, q, d, pivot_max, tableau, vars, scale_factors, enter,
                   leave, z0_can_leave, pivot_count, leave_candidate_rows, j,
                   rhs_z0_can_leave, caller, brk, pivots, bases>>

Next ==
    \/ ValidateInputs
    \/ NewLCP
    \/ AddCoveringVector
    \/ LexMinRatioEnter
    \/ ProcessCandidatesStep
    \/ LexMinRatioReturn
    \/ NegateRhs
    \/ Pivot
    \/ SelectEntering
    \/ BudgetCheck
    \/ Solution

Spec == Init /\ [][Next]_vars_all

\* --------------------------------------------- the tableau on its own
\* Tableau::pivot as a function of any tableau: the 2 x 4 tableaux with
\* entries of either sign and zero in the columns of z0, z1, z2, a fresh
\* determinant (-1, no pivot yet) or the determinant of an earlier pivot, and
\* every choice of the pivot row (leave) and column (enter)
PivotValues == {-1, 0, 2}

PivotDeterminants == {-1, 1, 2}

PivotTableaux ==
    {[values      |-> [k \in 0..7 |-> IF k % 4 = 3 THEN (IF k = 3 THEN 2 ELSE -1)
                                      ELSE f[(k \div 4) * 3 + (k % 4)]],
      ncols       |-> 4,
      nrows       |-> 2,
      determinant |-> dd] : f \in [0..5 -> PivotValues], dd \in PivotDeterminants}

InitPivot ==
    /\ m = ScenarioA.m /\ q = ScenarioA.q /\ d = ScenarioA.d
    /\ pivot_max = 0
    /\ tableau \in PivotTableaux
    /\ vars = VarsNew(2)
    /\ scale_factors = [k \in 0..3 |-> 1]
    /\ enter \in {z(vars, i) : i \in 0..2}
    /\ leave \in {w(vars, i) : i \in 1..2}
    /\ z0_can_leave = FALSE
    /\ pivot_count = 0
    /\ leave_candidate_rows = <<>>
    /\ j = 0
    /\ rhs_z0_can_leave = FALSE
    /\ caller = ""
    /\ pc = "pivot"
    /\ outcome = ""
    /\ result = <<>>
    /\ brk = ""
    /\ pivots = IF tableau.determinant = -1 THEN 0 ELSE 1
    /\ bases = <<Basis(vars)>>

\* src/lib.rs: Tableau::pivot(row, col) at the row of leave and the column of
\* enter; lib.rs has no variable map, so vars stays
LibPivot ==
    /\ pc = "pivot"
    /\ LET row == to_row(vars, leave)
           col == to_col(vars, enter)
       IN  IF entry(tableau, row, col) = 0
           THEN Panic("PivotOnZero") /\ UNCHANGED <<tableau, pivots>>
           ELSE /\ tableau' = LibTableauPivot(tableau, row, col)
                /\ pivots' = pivots + 1
                /\ pc' = "done"
                /\ outcome' = outcome
    /\ UNCHANGED <<m, q, d, pivot_max, vars, scale_factors, enter, leave,
                   z0_can_leave, pivot_count, leave_candidate_rows, j,
                   rhs_z0_can_leave, caller, result, brk, bases>>

NextPivot ==
    \/ Pivot
    \/ LibPivot

SpecPivot == InitPivot /\ [][NextPivot]_vars_all

\* ------------------------------------- take_min_ratio_rows on its own
\* take_min_ratio_rows as a function of any tableau and candidate list: the
\* three-row tableaux with a positive entering column (the column of z0),
\* a test column (the RHS) of either sign, and every non-empty list of
\* distinct rows, in any order
MinRatioEnterValues == {1, 2}

MinRatioTestValues == {-1, 0, 1, 2}

MinRatioTableaux ==
    {[TableauNew(3) EXCEPT !.values = [k \in 0..14 |->
          IF k % 5 = 0 THEN a[k \div 5]
          ELSE IF k % 5 = 4 THEN b[k \div 5] ELSE 0]] :
       a \in [0..2 -> MinRatioEnterValues], b \in [0..2 -> MinRatioTestValues]}

MinRatioCandidates ==
    {rows \in UNION {[1..k -> 0..2] : k \in 1..3} :
        \A a \in DOMAIN rows : \A b \in DOMAIN rows : a # b => rows[a] # rows[b]}

InitMinRatio ==
    /\ m = ScenarioB.m /\ q = ScenarioB.q /\ d = ScenarioB.d
    /\ pivot_max = 0
    /\ tableau \in MinRatioTableaux
    /\ vars = VarsNew(3)
    /\ scale_factors = [k \in 0..4 |-> 1]
    /\ enter = z(vars, 0)
    /\ leave = 0
    /\ z0_can_leave = FALSE
    /\ pivot_count = 0
    /\ leave_candidate_rows \in MinRatioCandidates
    /\ j = 0
    /\ rhs_z0_can_leave = FALSE
    /\ caller = ""
    /\ pc = "take_min_ratio_rows"
    /\ outcome = ""
    /\ result = <<>>
    /\ brk = ""
    /\ pivots = 0
    /\ bases = <<Basis(vars)>>

\* take_min_ratio_rows(tableau, enter_col, vars.rhs_col(), leave_candidate_rows)
TakeMinRatioRows ==
    /\ pc = "take_min_ratio_rows"
    /\ leave_candidate_rows' =
          take_min_ratio_rows(tableau, to_col(vars, enter), rhs_col(vars),
                              leave_candidate_rows)
    /\ pc' = "done"
    /\ UNCHANGED <<m, q, d, pivot_max, tableau, vars, scale_factors, enter,
                   leave, z0_can_leave, pivot_count, j, rhs_z0_can_leave,
                   caller, outcome, result, brk, pivots, bases>>

NextMinRatio == TakeMinRatioRows

SpecMinRatio == InitMinRatio /\ [][NextMinRatio]_vars_all

TypeOK ==
    /\ pc \in {"validate_inputs", "new", "add_covering_vector", "lexminratio",
               "process_candidates", "negate_rhs", "pivot", "select", "budget",
               "solution", "done"}
    /\ outcome \in Panics \cup {"", "Returned"}

\* ------------------------------------------------------- rational algebra
RatAdd(a, b) == RatioNew(a.numer * b.denom + b.numer * a.denom, a.denom * b.denom)

RatMul(a, b) == RatioNew(a.numer * b.numer, a.denom * b.denom)

\* sum over k = 1..upto of M[i,k] * zz[k]
RECURSIVE RowTimes(_, _, _)
RowTimes(i, zz, upto) ==
    IF upto = 0 THEN RatZero
    ELSE RatAdd(RowTimes(i, zz, upto - 1), RatMul(m[(i - 1) * n + upto], zz[upto]))

\* w = M zz + q, component i
WOf(zz, i) == RatAdd(RowTimes(i, zz, n), q[i])

\* zz solves the LCP (M, q)
Complementary(zz) ==
    /\ Len(zz) = n
    /\ \A i \in 1..n :
          /\ zz[i].numer >= 0
          /\ WOf(zz, i).numer >= 0
          /\ RatMul(zz[i], WOf(zz, i)).numer = 0

\* the input passes validate_inputs' conditions
ValidInput ==
    /\ \A i \in 1..n : d[i].numer >= 0
    /\ \E i \in 1..n : q[i].numer < 0
    /\ \A i \in 1..n : q[i].numer < 0 => d[i].numer > 0

\* d[i] < 0 for some i, or d[i] = 0 where q[i] < 0
BadCovering ==
    \E i \in 1..n : d[i].numer < 0 \/ (q[i].numer < 0 /\ d[i].numer = 0)

IsInput(inp) == m = inp.m /\ q = inp.q /\ d = inp.d

\* ---------------------------------------------------------------- claims

\* C1: whenever solve with max_pivots = 0 returns a vector z for a validated
\* input, z >= 0, w = Mz + q >= 0 and z_i * w_i = 0 for every i; on
\* M=[[2,1],[1,3]], q=[-1,-1], d=[2,1] it returns [2/5, 1/5] and on
\* M=[[0,-1,2],[2,0,-2],[-1,1,0]], q=[-3,6,-1], d=[1,1,1] it returns [0, 1, 3].
C1_ComplementarityOnSuccess ==
    (pc = "done" /\ pivot_max = 0) =>
        /\ (outcome = "Returned" /\ ValidInput) => Complementary(result)
        /\ IsInput(ScenarioA) =>
              outcome = "Returned" /\ result = <<Rat(2, 5), Rat(1, 5)>>
        /\ IsInput(ScenarioB) =>
              outcome = "Returned" /\ result = IntVec(<<0, 1, 3>>)

\* C2: if every q[i] >= 0 and d is a valid covering vector, solve returns the
\* zero vector of length n as a normal result, without a ratio test or pivot.
C2_TrivialSolution ==
    (pc = "done" /\ (\A i \in 1..n : q[i].numer >= 0 /\ d[i].numer >= 0)) =>
        /\ outcome = "Returned"
        /\ result = [i \in 1..n |-> RatZero]
        /\ pivots = 0
        /\ leave_candidate_rows = <<>>

\* C3: if some d[i] < 0, or some q[i] < 0 has d[i] = 0, validate_inputs rejects
\* the input with BadCoveringVector, before any tableau is built and before
\* any pivot, and no solution vector is returned.
C3_BadCoveringVector ==
    BadCovering =>
        \/ pc = "validate_inputs"
        \/ /\ pc = "done"
           /\ outcome = "BadCoveringVector"
           /\ tableau.nrows = 0
           /\ bases = <<>>
           /\ pivots = 0
           /\ result = <<>>

\* witness of C3: an input with d >= 0 and d[i] = 0 where q[i] < 0 was rejected
C3_Witness ==
    /\ pc = "done"
    /\ outcome = "BadCoveringVector"
    /\ \A i \in 1..n : d[i].numer >= 0
    /\ \E i \in 1..n : q[i].numer < 0 /\ d[i].numer = 0

\* C4: lexminratio fails with ray termination exactly when the entering column
\* has no row i in [0, n) with A[i, c] > 0; the solve then ends there: no
\* further step, no further pivot, no solution vector.
C4_RayTermination ==
    [][/\ outcome # "RayTermination"
       /\ (pc = "lexminratio" /\ ~is_basic(vars, enter)) =>
             /\ (outcome' = "RayTermination") <=>
                   (\A i \in 0..(n - 1) : entry(tableau, i, to_col(vars, enter)) <= 0)
             /\ (outcome' = "RayTermination") =>
                   pc' = "done" /\ result' = <<>> /\ pivots' = pivots
       /\ pc # "lexminratio" => outcome' # "RayTermination"]_vars_all

\* witness of C4: ray termination after the first pivot (M=[[-1]], q=[-1], d=[1])
C4_Witness ==
    /\ outcome = "RayTermination"
    /\ pc = "done"
    /\ pivots = 1
    /\ IsInput(ScenarioD)

\* C5: with max_pivots = k # 0 at most k pivots are performed, and a run the
\* budget stops ends in PivotLimitReached, reported as that outcome and not as
\* a solution vector; with max_pivots = 0 the budget never stops the loop.
C5_PivotBudget ==
    /\ pivot_max # 0 => pivots <= pivot_max
    /\ pivot_max = 0 => brk # "pivot_max"
    /\ (pc = "done" /\ brk = "pivot_max") =>
          outcome = "PivotLimitReached" /\ result = <<>>

\* no basis occurs twice in the bases recorded so far
NoBasisTwice ==
    \A a \in 1..Len(bases) : \A b \in 1..Len(bases) : a # b => bases[a] # bases[b]

\* C6: for a validated input and max_pivots = 0 the solve ends in Solved (the
\* loop left because z0 can leave) or RayTerminated, never in an internal
\* abort, and no basis occurs twice on the way.
C6_Termination ==
    (pivot_max = 0 /\ ValidInput) =>
        /\ NoBasisTwice
        /\ pc = "done" =>
              \/ outcome = "RayTermination"
              \/ outcome = "Returned" /\ brk = "z0_can_leave"

\* z0 is the variable of a row that survives the minimum-ratio reduction
\* against the RHS column, for entering column c
Z0SurvivesRhs(t, vs, c) ==
    \E r \in 0..(vs.n - 1) :
        /\ is_z0(from_row(vs, r))
        /\ entry(t, r, c) > 0
        /\ \A i \in 0..(vs.n - 1) :
              entry(t, i, c) > 0 =>
                 entry(t, r, rhs_col(vs)) * entry(t, i, c)
                    <= entry(t, i, rhs_col(vs)) * entry(t, r, c)

\* C7: the z0_can_leave that lexminratio returns is true iff z0 is the variable
\* of a row surviving the reduction against the RHS column; the driver leaves
\* the loop right after the pivot that follows a call reporting true (it asks
\* for the next entering variable only when the flag was false).
C7_Z0CanLeave ==
    /\ pc \in {"negate_rhs", "budget"} =>
          (z0_can_leave <=> Z0SurvivesRhs(tableau, vars, to_col(vars, enter)))
    /\ (pc = "lexminratio" /\ caller = "loop") => ~z0_can_leave
    /\ (pc = "solution" /\ ~z0_can_leave) => brk # "z0_can_leave"

\* the rows of S with the least ratio A[i, tc] / A[i, c]
MinRatioSet(t, S, c, tc) ==
    {i \in S : \A k \in S :
        entry(t, i, tc) * entry(t, k, c) <= entry(t, k, tc) * entry(t, i, c)}

\* the lexicographic reduction of the candidate set S by the columns of
\* w_jj, w_jj+1, ..., w_n: a basic w_j stands for the unit column of its row
RECURSIVE LexReduce(_, _, _, _, _)
LexReduce(t, vs, c, S, jj) ==
    IF jj > vs.n \/ Cardinality(S) <= 1 THEN S
    ELSE IF is_basic(vs, w(vs, jj))
    THEN LexReduce(t, vs, c, S \ {to_row(vs, w(vs, jj))}, jj + 1)
    ELSE LexReduce(t, vs, c, MinRatioSet(t, S, c, to_col(vs, w(vs, jj))), jj + 1)

\* the lexicographically minimal rows among K = {i : A[i, c] > 0}
LexMinRows(t, vs, c) ==
    LexReduce(t, vs, c,
              MinRatioSet(t, {i \in 0..(vs.n - 1) : entry(t, i, c) > 0}, c, rhs_col(vs)),
              1)

\* C8: for a cobasic entering variable with non-empty K, lexminratio returns
\* from_row(r) for the single lexicographically minimal row r of K (least
\* ratio against the RHS, ties broken by the columns of w1, w2, ... in that
\* order); the returned row is a member of K.
C8_LexMinRow ==
    /\ outcome # "IndexOutOfBounds"
    /\ pc \in {"negate_rhs", "budget"} =>
          /\ is_basic(vars, leave)
          /\ entry(tableau, to_row(vars, leave), to_col(vars, enter)) > 0
          /\ LexMinRows(tableau, vars, to_col(vars, enter)) = {to_row(vars, leave)}

\* C9: solution returns a vector of length n whose entry for z_i is 0 when z_i
\* is cobasic and sigma[i] * A[r, rhs] / (determinant * sigma[rhs]) when z_i
\* is basic in row r.
C9_SolutionScale ==
    (pc = "done" /\ outcome = "Returned") =>
        /\ Len(result) = n
        /\ \A i \in 1..n :
              result[i] =
                 IF is_basic(vars, z(vars, i))
                 THEN RatioNew(scale_factors[i]
                                  * entry(tableau, to_row(vars, z(vars, i)), rhs_col(vars)),
                               tableau.determinant * scale_factors[rhs_col(vars)])
                 ELSE RatZero

\* least common multiple of the denominators of vec[1..k]
RECURSIVE LcmDenoms(_, _)
LcmDenoms(vec, k) ==
    IF k = 0 THEN 1
    ELSE LET l == LcmDenoms(vec, k - 1)
         IN  (l \div Gcd(l, vec[k].denom)) * vec[k].denom

\* C10: after construction sigma[j] is the least common multiple of the
\* denominators of input column j (d, the columns of M, q), and every entry
\* A[i,j] = numer * sigma[j] / denom is exact: A[i,j] / sigma[j] is the input.
C10_ScaleFactors ==
    (pc = "lexminratio" /\ caller = "first") =>
        \A jj \in 0..(n + 1) :
            /\ scale_factors[jj] = LcmDenoms(Column(m, q, d, jj), n)
            /\ \A i \in 1..n :
                  entry(tableau, i - 1, jj) * Column(m, q, d, jj)[i].denom
                     = Column(m, q, d, jj)[i].numer * scale_factors[jj]

\* the LCP has been built: tableau, variable map and scale factors exist
HasTableau ==
    \/ pc \in {"add_covering_vector", "lexminratio", "process_candidates",
               "negate_rhs", "pivot", "select", "budget", "solution"}
    \/ pc = "done" /\ outcome \notin {"BadCoveringVector", "TrivialSolution",
                                      "DimensionMismatch"}

\* C11: in every state of a solve, the initial one and the one after each
\* swap/pivot included, vars2rowcol and rowcol2vars are mutual inverses on
\* 0..2n: from_row(to_row(v)) = v for every basic v and
\* from_col(to_col(v)) = v for every cobasic v.
C11_Bijection ==
    HasTableau =>
        /\ vars.n = n
        /\ DOMAIN vars.vars2rowcol = 0..(2 * n)
        /\ DOMAIN vars.rowcol2vars = 0..(2 * n)
        /\ \A v \in 0..(2 * n) :
              /\ vars.vars2rowcol[v] \in 0..(2 * n)
              /\ vars.rowcol2vars[vars.vars2rowcol[v]] = v
              /\ IF is_basic(vars, v)
                 THEN from_row(vars, to_row(vars, v)) = v
                 ELSE from_col(vars, to_col(vars, v)) = v
        /\ \A p \in 0..(2 * n) :
              /\ vars.rowcol2vars[p] \in 0..(2 * n)
              /\ vars.vars2rowcol[vars.rowcol2vars[p]] = p

\* a map of three-variable rows that two pivots have rearranged
C11_Witness ==
    /\ pc = "select"
    /\ n = 3
    /\ pivots >= 2
    /\ is_basic(vars, z(vars, 0))
    /\ \E i \in 1..n : is_basic(vars, z(vars, i))

\* C12: in every state of a solve exactly n of the 2n+1 variables are basic
\* and exactly n+1 are cobasic; before the first pivot the basic ones are
\* w1..wn at rows 0..n-1 and the cobasic ones are z0..zn at columns 0..n.
C12_BasisCardinality ==
    HasTableau =>
        /\ Cardinality(Basis(vars)) = n
        /\ Cardinality((0..(2 * n)) \ Basis(vars)) = n + 1
        /\ pivots = 0 =>
              /\ \A i \in 1..n : /\ is_basic(vars, w(vars, i))
                                 /\ to_row(vars, w(vars, i)) = i - 1
              /\ \A i \in 0..n : /\ ~is_basic(vars, z(vars, i))
                                 /\ to_col(vars, z(vars, i)) = i

\* a basis that holds z0, a z_i and a w_i after pivots
C12_Witness ==
    /\ HasTableau
    /\ pivots >= 2
    /\ \E i \in 1..n : is_basic(vars, z(vars, i))
    /\ \E i \in 1..n : is_basic(vars, w(vars, i))
    /\ \E i \in 1..n : ~is_basic(vars, w(vars, i))

\* C13: the determinant is -1 before the first pivot, and after every pivot
\* it is strictly positive and equals the absolute value that the pivot
\* entry A[row, col] had just before that pivot.
C13_DeterminantPositivity ==
    [][/\ (HasTableau' /\ pivots' = 0) => tableau'.determinant = -1
       /\ pivots' = pivots + 1 =>
             /\ tableau'.determinant > 0
             /\ tableau'.determinant =
                  Abs(entry(tableau, to_row(vars, leave), to_col(vars, enter)))
      ]_vars_all

\* the dividend that Tableau::pivot(row, col) divides by the determinant for
\* the cell (i, jj), i # row, jj # col
PivotDividend(t, row, col, i, jj) ==
    LET p == entry(t, row, col)
    IN  IF p < 0
        THEN entry(t, i, jj) * Abs(p) + entry(t, row, jj) * entry(t, i, col)
        ELSE entry(t, i, jj) * Abs(p) - entry(t, row, jj) * entry(t, i, col)

\* C14: in every pivot of a solve that started from a validated input, each
\* division of an updated entry by the previous determinant has remainder
\* zero.
C14_ExactDivisibility ==
    [][pivots' = pivots + 1 =>
         LET row == to_row(vars, leave)
             col == to_col(vars, enter)
         IN  \A i \in (0..(tableau.nrows - 1)) \ {row} :
             \A jj \in (0..(tableau.ncols - 1)) \ {col} :
                /\ TruncRem(PivotDividend(tableau, row, col, i, jj),
                            tableau.determinant) = 0
                /\ entry(tableau', i, jj) * tableau.determinant =
                      PivotDividend(tableau, row, col, i, jj)
      ]_vars_all

\* a pivot has just divided by a determinant larger than 1 (the previous
\* determinant now stands in the pivot cell) and left a nonzero entry
C14_Witness ==
    /\ pc = "select"
    /\ pivots >= 2
    /\ entry(tableau, to_row(vars, enter), to_col(vars, leave)) > 1
    /\ \E i \in (0..(n - 1)) \ {to_row(vars, enter)} :
          entry(tableau, i, rhs_col(vars)) # 0

Sign(x) == IF x < 0 THEN -1 ELSE IF x = 0 THEN 0 ELSE 1

\* C15: Tableau::pivot(r, c) with p = A[r,c] # 0 and previous determinant D:
\* for i # r and j # c the new A[i,j] is
\* (A[i,j]*|p| - sign(p)*A[r,j]*A[i,c]) / D (where D divides the dividend);
\* column c in the rows i # r is negated when p > 0 and unchanged when p < 0;
\* A[r,c] becomes D and the other entries of row r stay when p > 0, and
\* when p < 0 the whole row r, the D in A[r,c] included, is negated; the
\* determinant becomes |p|.  If p = 0 the pivot fails and changes nothing.
C15_TableauPivot ==
    [][pc = "pivot" =>
         LET r  == to_row(vars, leave)
             c  == to_col(vars, enter)
             p  == entry(tableau, r, c)
             D  == tableau.determinant
             rows == 0..(tableau.nrows - 1)
             cols == 0..(tableau.ncols - 1)
         IN  /\ p = 0 => /\ tableau' = tableau
                         /\ outcome' = "PivotOnZero"
                         /\ pivots' = pivots
             /\ (p # 0 /\ pc' = "select") =>
                   /\ \A i \in rows \ {r} : \A jj \in cols \ {c} :
                        LET dividend == entry(tableau, i, jj) * Abs(p)
                                        - Sign(p) * entry(tableau, r, jj)
                                                  * entry(tableau, i, c)
                        IN  TruncRem(dividend, D) = 0 =>
                                entry(tableau', i, jj) * D = dividend
                   /\ \A i \in rows \ {r} :
                        entry(tableau', i, c) =
                            IF p > 0 THEN -entry(tableau, i, c)
                                     ELSE entry(tableau, i, c)
                   /\ entry(tableau', r, c) = IF p > 0 THEN D ELSE -D
                   /\ \A jj \in cols \ {c} :
                        entry(tableau', r, jj) =
                            IF p > 0 THEN entry(tableau, r, jj)
                                     ELSE -entry(tableau, r, jj)
                   /\ tableau'.determinant = Abs(p)
                   /\ tableau'.nrows = tableau.nrows
                   /\ tableau'.ncols = tableau.ncols
                   /\ DOMAIN tableau'.values = DOMAIN tableau.values
      ]_vars_all

\* after a pivot on -1 with previous determinant 2: the pivot cell holds -2,
\* the determinant is 1, and the other row has a nonzero entry in the
\* pivot column
C15_Witness ==
    /\ pc = "select"
    /\ pivot_count = 0
    /\ tableau.determinant = 1
    /\ entry(tableau, to_row(vars, enter), to_col(vars, leave)) = -2
    /\ \E i \in (0..1) \ {to_row(vars, enter)} :
          entry(tableau, i, to_col(vars, leave)) # 0

\* Ordering::reverse
Reverse(ord) ==
    IF ord = "Less" THEN "Greater" ELSE IF ord = "Greater" THEN "Less" ELSE "Equal"

\* C16: for all rows a, b and columns c, t of any tableau,
\* ratio_test(a, b, c, t) is the reverse of ratio_test(b, a, c, t), and
\* ratio_test(a, a, c, t) = Equal.
C16_RatioTestAntisymmetry ==
    \A a \in 0..(tableau.nrows - 1) : \A b \in 0..(tableau.nrows - 1) :
    \A c \in 0..(tableau.ncols - 1) : \A t \in 0..(tableau.ncols - 1) :
        /\ ratio_test(tableau, a, b, c, t) \in {"Less", "Equal", "Greater"}
        /\ ratio_test(tableau, b, a, c, t) = Reverse(ratio_test(tableau, a, b, c, t))
        /\ ratio_test(tableau, a, a, c, t) = "Equal"

\* a pivoted tableau whose two rows are positive in column 0, compare Less
\* on one test column and tie on another
C16_Witness ==
    /\ pc = "select"
    /\ entry(tableau, 0, 0) > 0
    /\ entry(tableau, 1, 0) > 0
    /\ \E t \in 1..3 : ratio_test(tableau, 0, 1, 0, t) = "Less"
    /\ \E t \in 1..3 : ratio_test(tableau, 0, 1, 0, t) = "Equal"

\* C17: for every variable v other than z0 (index 1..2n),
\* complement(z_i) = w_i, complement(w_i) = z_i and
\* complement(complement(v)) = v; complement(z0) is an error: the driver's
\* `leave.complement()` panics when leave is z0 and otherwise makes the
\* complement of leave the entering variable.
C17_ComplementInvolution ==
    [][/\ HasTableau =>
             /\ \A i \in 1..n :
                   /\ complement(z(vars, i), n) = w(vars, i)
                   /\ complement(w(vars, i), n) = z(vars, i)
             /\ \A v \in 1..(2 * n) :
                   /\ complement(v, n) \in 1..(2 * n)
                   /\ complement(complement(v, n), n) = v
       /\ (pc = "select" /\ ~z0_can_leave) =>
             IF is_z0(leave)
             THEN pc' = "done" /\ outcome' = "ComplementOfZ0" /\ enter' = enter
             ELSE /\ enter' = complement(leave, n)
                  /\ complement(enter', n) = leave
                  /\ outcome' = outcome
      ]_vars_all

\* a run of three-variable rows that took complements of z's and w's and
\* then asked for the complement of z0
C17_Witness ==
    /\ outcome = "ComplementOfZ0"
    /\ n = 3
    /\ pivots >= 3
    /\ \E i \in 1..n : is_basic(vars, z(vars, i))

\* C18: swap(enter, leave) with leave basic at row r and enter cobasic at
\* column c returns (r, c), the cell the tableau is then pivoted on; after
\* it enter is basic at row r (from_row(r) = enter), leave is cobasic at
\* column c (from_col(c) = leave), and every other variable and every other
\* position is as before.
C18_SwapExchanges ==
    [][(pc = "pivot" /\ is_basic(vars, leave) /\ ~is_basic(vars, enter)) =>
         LET r == to_row(vars, leave)
             c == to_col(vars, enter)
         IN  /\ is_basic(vars', enter)
             /\ to_row(vars', enter) = r
             /\ from_row(vars', r) = enter
             /\ ~is_basic(vars', leave)
             /\ to_col(vars', leave) = c
             /\ from_col(vars', c) = leave
             /\ \A v \in (0..(2 * n)) \ {enter, leave} :
                   vars'.vars2rowcol[v] = vars.vars2rowcol[v]
             /\ \A pos \in (0..(2 * n)) \ {r, c + n} :
                   vars'.rowcol2vars[pos] = vars.rowcol2vars[pos]
             /\ vars'.n = vars.n
             /\ entry(tableau, r, c) # 0 => tableau' = TableauPivot(tableau, r, c)
      ]_vars_all

\* after a swap in a rearranged map: a z_i has left the basis from a row
\* below the first and another variable has taken that row
C18_Witness ==
    /\ pc = "select"
    /\ pivots >= 2
    /\ is_z(leave, n)
    /\ ~is_z0(leave)
    /\ ~is_basic(vars, leave)
    /\ to_row(vars, enter) >= 1
    /\ from_row(vars, to_row(vars, enter)) = enter
    /\ from_col(vars, to_col(vars, leave)) = leave

\* the rows held in a candidate list
RowSet(rows) == {rows[k] : k \in 1..Len(rows)}

\* C19: in the tie-break loop of lexminratio (more than one candidate, test
\* variable w_j), when w_j is basic the step removes from the candidate
\* set K exactly the row of w_j, if that row is in K, and no other row; it
\* never indexes K out of bounds.
C19_RemovesRowOfBasicW ==
    [][(/\ pc = "process_candidates"
        /\ Len(leave_candidate_rows) > 1
        /\ j <= n
        /\ is_basic(vars, w(vars, j))) =>
         /\ outcome' # "IndexOutOfBounds"
         /\ RowSet(leave_candidate_rows') =
              RowSet(leave_candidate_rows) \ {to_row(vars, w(vars, j))}
      ]_vars_all

\* C20: in every lexminratio call of a solve the tie-break loop over w_1,
\* w_2, ... reduces the candidate set K to exactly one row while j <= n: it
\* never needs w_j with j > n, never ends in an index panic, and returns
\* with one candidate after at most n steps.
C20_TieBreakWithinN ==
    /\ (pc = "process_candidates" /\ Len(leave_candidate_rows) > 1) => j <= n
    /\ pc = "process_candidates" =>
          /\ Len(leave_candidate_rows) >= 1
          /\ j \in 1..(n + 1)
    /\ pc \in {"negate_rhs", "budget"} => Len(leave_candidate_rows) = 1
    /\ outcome # "IndexOutOfBounds"

\* C21: take_min_ratio_rows(A, c, t, K) on a non-empty K with A[i,c] > 0 for
\* all i in K leaves exactly the rows of K whose ratio A[i,t]/A[i,c] is
\* minimal, in their original relative order: the result is non-empty,
\* every two kept rows compare Equal under ratio_test(., ., c, t), and every
\* dropped row has a strictly larger ratio than every kept row.
C21_TakeMinRatioRows ==
    [][pc = "take_min_ratio_rows" =>
         LET K    == leave_candidate_rows
             kept == leave_candidate_rows'
             c    == to_col(vars, enter)
             t    == rhs_col(vars)
             minimal == MinRatioSet(tableau, RowSet(K), c, t)
         IN  /\ Len(kept) >= 1
             /\ kept = SelectSeq(K, LAMBDA i : i \in minimal)
             /\ \A a \in RowSet(kept) : \A b \in RowSet(kept) :
                   ratio_test(tableau, a, b, c, t) = "Equal"
             /\ \A x \in RowSet(K) \ RowSet(kept) : \A y \in RowSet(kept) :
                   /\ entry(tableau, x, t) * entry(tableau, y, c)
                        > entry(tableau, y, t) * entry(tableau, x, c)
                   /\ ratio_test(tableau, y, x, c, t) = "Less"
      ]_vars_all

\* a call has returned two tied rows of nonzero ratio, row 2 before row 0 as
\* in the list it was given; row 1 has a larger ratio and is not kept
C21_Witness ==
    /\ pc = "done"
    /\ leave_candidate_rows = <<2, 0>>
    /\ ratio_test(tableau, 2, 0, 0, 4) = "Equal"
    /\ ratio_test(tableau, 2, 1, 0, 4) = "Less"
    /\ entry(tableau, 2, 4) # 0

\* the variable that left the basis in pivot number k (bases[k] is the basis
\* before it, bases[k + 1] the basis after it)
LeftInPivot(k) == CHOOSE v \in bases[k] \ bases[k + 1] : TRUE

\* the RHS column as init_tableau wrote it
InitialRhs(i) == entry(init_tableau(TableauNew(n), m, q, 1), i, n + 1)

\* C22: the first entering variable of a solve is z0, and in every later
\* iteration the entering variable is the complement of the variable that
\* left the basis in the pivot just before; the RHS column is negated
\* exactly once, after the first lexminratio call and before the first
\* pivot: up to the first pivot it is the column init_tableau wrote, at the
\* first pivot it is its negation, and between pivots nothing touches the
\* tableau.
C22_ComplementaryPivotingOrder ==
    [][/\ pc = "pivot" =>
             IF pivots = 0
             THEN /\ is_z0(enter)
                  /\ \A i \in 0..(n - 1) :
                        entry(tableau, i, rhs_col(vars)) = -InitialRhs(i)
             ELSE /\ Len(bases) = pivots + 1
                  /\ bases[pivots] \ bases[pivots + 1] = {LeftInPivot(pivots)}
                  /\ ~is_z0(LeftInPivot(pivots))
                  /\ enter = IF LeftInPivot(pivots) <= n
                             THEN LeftInPivot(pivots) + n
                             ELSE LeftInPivot(pivots) - n
       /\ pc \in {"lexminratio", "process_candidates", "negate_rhs"} /\ pivots = 0 =>
             \A i \in 0..(n - 1) : entry(tableau, i, rhs_col(vars)) = InitialRhs(i)
       /\ pc = "negate_rhs" =>
             /\ caller = "first"
             /\ pivot_count = 0
             /\ pc' = "pivot"
             /\ pivot_count' = 1
       /\ pc \in {"lexminratio", "process_candidates", "select", "budget",
                   "solution"} => tableau' = tableau
      ]_vars_all

\* a third pivot is due: the entering variable is the complement of the
\* variable that left in the second, the RHS was negated once
C22_Witness ==
    /\ pc = "pivot"
    /\ pivots = 2
    /\ n = 3
    /\ enter = complement(LeftInPivot(2), n)
    /\ \E i \in 0..(n - 1) : InitialRhs(i) # 0

\* C23: during a solve on a validated input the driver never requests the
\* complement of z0: whenever the leaving variable chosen by lexminratio is
\* z0, the loop stops after that pivot (z0_can_leave is set), before
\* leave.complement() is evaluated.
C23_NeverComplementOfZ0 ==
    /\ outcome # "ComplementOfZ0"
    /\ (pc = "select" /\ is_z0(leave)) => z0_can_leave

\* C24: feasibility is kept by every pivot of a solve on a validated input:
\* every entry the driver pivots on is strictly positive at the moment of
\* the pivot, and after the first pivot and after each later one every RHS
\* entry A[i, rhs_col] is >= 0 with determinant > 0.
C24_FeasibilityKept ==
    [][/\ pivots' = pivots + 1 =>
             /\ entry(tableau, to_row(vars, leave), to_col(vars, enter)) > 0
             /\ tableau'.determinant > 0
             /\ \A i \in 0..(n - 1) : entry(tableau', i, rhs_col(vars')) >= 0
       /\ pivots >= 1 =>
             /\ tableau.determinant > 0
             /\ \A i \in 0..(n - 1) : entry(tableau, i, rhs_col(vars)) >= 0
      ]_vars_all

\* after a third pivot: a zero and a positive entry in the RHS column
C24_Witness ==
    /\ pc = "select"
    /\ pivots >= 3
    /\ n >= 3
    /\ \E i \in 0..(n - 1) : entry(tableau, i, rhs_col(vars)) > 0
    /\ \E i \in 0..(n - 1) : entry(tableau, i, rhs_col(vars)) = 0

\* the pairs (z_i, w_i), i in 1..n, with both members cobasic
CobasicPairs(vs) ==
    {i \in 1..vs.n : ~is_basic(vs, z(vs, i)) /\ ~is_basic(vs, w(vs, i))}

\* C25: in every state of a solve, for every i in 1..n the variables z_i
\* and w_i are never both basic; while z0 is basic exactly one pair
\* (z_k, w_k) has both members cobasic, and when z0 is not basic every pair
\* has exactly one basic member.
C25_AlmostComplementaryBasis ==
    HasTableau =>
        /\ \A i \in 1..n :
              ~(is_basic(vars, z(vars, i)) /\ is_basic(vars, w(vars, i)))
        /\ is_basic(vars, z(vars, 0)) => Cardinality(CobasicPairs(vars)) = 1
        /\ ~is_basic(vars, z(vars, 0)) => CobasicPairs(vars) = {}

\* z0 has entered and left again: a complementary basis with a z_i and a
\* w_k in it
C25_Witness ==
    /\ pc = "select"
    /\ pivots >= 3
    /\ ~is_basic(vars, z(vars, 0))
    /\ \E i \in 1..n : is_basic(vars, z(vars, i))
    /\ \E i \in 1..n : is_basic(vars, w(vars, i))

====
